---- MODULE Spec2Model ----
(***************************************************************************)
(* The property-package workflow of the create-property-package /          *)
(* idaes-property-package-designer skills as a state machine: input        *)
(* normalization, the coverage gate, approach selection, method/parameter  *)
(* mapping with the source-priority lookup of parameters, the validation   *)
(* and repair loop, and the delivery report.  The parameter ledger store   *)
(* (scripts/build_parameter_ledger.py) is not part of the sources; its     *)
(* Insert/Resolve are modelled from the design document.                   *)
(***************************************************************************)
EXTENDS Integers, Sequences, FiniteSets, TLC

VARIABLES
    raw,        \* the raw request
    avail,      \* method catalog: how each property can be provided
    spec,       \* the normalized Specification, or NoSpec
    error,      \* the normalization error, or NoError
    pc,         \* the stage the run is at
    coverage,   \* the coverage table of the latest gate run
    verdict,    \* the verdict of the latest gate run
    decisions,  \* the Decision records of the run, in order
    approach,   \* the selected approach
    look,       \* per parameter key: where its resolution stands
    ledger,     \* the parameter ledger: a sequence of records
    results,    \* the latest ValidationResult sequence, as a map
    repairs,    \* repair iterations made so far (saturating count)
    reason,     \* why the run is Blocked
    blockers,   \* the checklist entries listed with a Blocked outcome
    report,     \* the delivery report / build plan hand-off
    emitted,    \* parameter keys a TODO placeholder was emitted for in this run
    lastCall,   \* the latest call of the ledger's Insert
    dropped     \* the "not supported" report: properties removed by resolution

vars == <<raw, avail, spec, error, pc, coverage, verdict, decisions, approach,
          look, ledger, results, repairs, reason, blockers, report, emitted,
          lastCall, dropped>>

-----------------------------------------------------------------------------
(* Bounds of the model *)

\* how many catalog properties may deviate from "modular method available"
MaxDeviations == 1
\* the configured maximum number of repair iterations of a run
RepairBudget == 1
\* longest ledger of the ledger-only specification
MaxLedger == 3

\* how many of the library-decided checks may fail in one checklist run
MaxFailing == 1

\* the repair counter saturates here: it only has to show a count above the budget
RepairCap == RepairBudget + 1

-----------------------------------------------------------------------------
(* The request schema *)

Phases == {"Liq", "Vap"}
StateDefinitions == {"FTPx", "FpcTP", "FcTP", "FPhx", "FcPh"}
CubicEos == {"PR", "SRK"}
NoSpec == [none |-> TRUE]
NoError == [kind |-> "none", missing_fields |-> {}]

\* The fields a request has; "absent" and the empty set stand for an omitted field.
RawShape(ph, sd, mode, eq, form, eosPh, eos, ovr, pol) ==
    [components |-> 2, phases |-> ph, state_definition |-> sd,
     coverage_mode |-> mode, include |-> {}, exclude |-> {},
     eq_required |-> eq,
     pairs |-> IF eq THEN {<<"Vap", "Liq">>} ELSE {},
     form |-> form, eos_phases |-> eosPh, eos |-> eos,
     approach |-> ovr, placeholder_strategy |-> pol]

\* Requests that normalize: one or two phases, equilibrium only with two phases.
ValidRequests ==
    { RawShape(ph, "FTPx", mode, FALSE, "fugacity", ph, "Ideal", "auto", pol) :
        ph \in {{"Liq"}, Phases},
        mode \in {"absent", "minimum", "comprehensive"}, pol \in BOOLEAN }
    \cup
    { RawShape(Phases, "FTPx", mode, FALSE, "fugacity", Phases, "Ideal", ovr, TRUE) :
        mode \in {"minimum", "comprehensive"}, ovr \in {"generic", "class"} }
    \cup
    { RawShape(Phases, "custom", "minimum", FALSE, "fugacity", Phases, "Ideal", ovr, TRUE) :
        ovr \in {"auto", "generic", "class"} }
    \cup
    { RawShape(Phases, "FTPx", mode, TRUE, form, Phases, eos, "auto", FALSE) :
        mode \in {"absent", "minimum", "comprehensive"},
        form \in {"fugacity", "log_fugacity"}, eos \in {"Ideal", "PR"} }
    \cup
    { RawShape(Phases, "FTPx", "minimum", TRUE, form, Phases, eos, "auto", TRUE) :
        form \in {"fugacity", "log_fugacity"}, eos \in {"Ideal", "PR"} }
    \cup
    { [RawShape(Phases, "FTPx", mode, eq, "fugacity", Phases, "Ideal", "auto", TRUE)
          EXCEPT !.exclude = {p}] :
        mode \in {"minimum", "comprehensive"}, eq \in BOOLEAN,
        p \in {"visc_d_phase", "phase_equilibrium_form"} }

BaseRequest == RawShape(Phases, "FTPx", "minimum", FALSE, "fugacity", Phases, "Ideal", "auto", TRUE)

\* Requests with high-impact fields omitted, with a phase pair naming an
\* undeclared phase, or with an EOS entry for an undeclared phase.
InvalidRequests ==
    { [BaseRequest EXCEPT !.components = c, !.phases = ph, !.eos_phases = ph,
                          !.state_definition = sd, !.eos = eos] :
        c \in {0, 2}, ph \in {{}, Phases}, sd \in {"absent", "FTPx"},
        eos \in {"absent", "Ideal"} }
    \cup
    { RawShape({"Liq"}, "FTPx", "minimum", TRUE, "fugacity", {"Liq"}, "Ideal", "auto", TRUE),
      RawShape({"Liq"}, "FTPx", "minimum", FALSE, "fugacity", Phases, "Ideal", "auto", TRUE) }

RawRequests == ValidRequests \cup InvalidRequests

MissingFieldsEmptyListsOk(r) ==
    (IF r.state_definition = "absent" THEN {"state_definition"} ELSE {})
    \cup (IF r.eos = "absent" THEN {"equation_of_state"} ELSE {})
MissingFieldsEosDefaulted(r) ==
    (IF r.components = 0 THEN {"components"} ELSE {})
    \cup (IF r.phases = {} THEN {"phases"} ELSE {})
    \cup (IF r.state_definition = "absent" THEN {"state_definition"} ELSE {})
\* The high-impact fields a request leaves out.
MissingFields(r) ==
    (IF r.components = 0 THEN {"components"} ELSE {})
    \cup (IF r.phases = {} THEN {"phases"} ELSE {})
    \cup (IF r.state_definition = "absent" THEN {"state_definition"} ELSE {})
    \cup (IF r.eos = "absent" THEN {"equation_of_state"} ELSE {})

\* Phase pair keys match the declared phases.
ReferencesOk(r) ==
    \A pr \in r.pairs : pr[1] \in r.phases /\ pr[2] \in r.phases

NormalizedSpecKeepingMode(r) ==
    [components |-> r.components, phases |-> r.phases,
     state_definition |-> r.state_definition,
     coverage_mode |-> r.coverage_mode,
     include |-> r.include, exclude |-> r.exclude,
     eq_required |-> r.eq_required, pairs |-> r.pairs, form |-> r.form,
     eos_phases |-> r.eos_phases, eos |-> r.eos, approach |-> r.approach,
     placeholder_strategy |-> r.placeholder_strategy]
\* The strict spec of a complete request; low-impact fields get their defaults.
NormalizedSpec(r) ==
    [components |-> r.components, phases |-> r.phases,
     state_definition |-> r.state_definition,
     coverage_mode |-> IF r.coverage_mode = "absent" THEN "minimum" ELSE r.coverage_mode,
     include |-> r.include, exclude |-> r.exclude,
     eq_required |-> r.eq_required, pairs |-> r.pairs, form |-> r.form,
     eos_phases |-> r.eos_phases, eos |-> r.eos, approach |-> r.approach,
     placeholder_strategy |-> r.placeholder_strategy]

-----------------------------------------------------------------------------
(* The property catalog and the coverage gate *)

Props == {"enth_mol", "phase_frac", "phase_equilibrium_form", "visc_d_phase"}
MinimumProfile == {"enth_mol", "phase_frac", "phase_equilibrium_form"}
ComprehensiveProfile == MinimumProfile \cup {"visc_d_phase"}
EquilibriumSubset == {"phase_equilibrium_form"}

Applicability(p) ==
    CASE p = "phase_frac" -> "multiphase_only"
      [] p = "phase_equilibrium_form" -> "equilibrium_required"
      [] OTHER -> "always"

Applicable(p, s) ==
    CASE Applicability(p) = "multiphase_only" -> Cardinality(s.phases) >= 2
      [] Applicability(p) = "equilibrium_required" -> s.eq_required
      [] OTHER -> TRUE

Profile(mode) == IF mode = "comprehensive" THEN ComprehensiveProfile ELSE MinimumProfile

RequestedProperties(s) == (Profile(s.coverage_mode) \cup s.include) \ s.exclude
CatalogResolveKeepingAll(s) == RequestedProperties(s)
\* The catalog's resolution: the profile, plus the properties the user asks
\* for, minus those the user excludes, minus those that do not apply.
CatalogResolve(s) == {p \in RequestedProperties(s) : Applicable(p, s)}

\* The report of the properties resolution removed.
Dropped(s) ==
    {[property |-> p, reason |-> "not_applicable"] : p \in RequestedProperties(s) \ CatalogResolve(s)}

ResolvePropertiesUnforced(s) == CatalogResolve(s)
\* The resolved required-properties list of the gate: the equilibrium subset is
\* in it whenever equilibrium is requested.
ResolveProperties(s) ==
    CatalogResolve(s) \cup (IF s.eq_required THEN EquilibriumSubset ELSE {})

\* The properties that may not be unresolved when code is scaffolded.
MandatoryNoEquilibrium(s) == MinimumProfile \ EquilibriumSubset
\* The equilibrium subset is mandatory, in either mode, once equilibrium is requested.
Mandatory(s) ==
    (MinimumProfile \ EquilibriumSubset)
    \cup (IF s.eq_required THEN EquilibriumSubset ELSE {})

\* covered: a modular method exists; custom_implementation_needed: only custom
\* equations can provide it; missing: unresolved.
CoverageStatusDrifting(p) ==
    CASE avail[p] = "modular" -> "covered"
      [] avail[p] = "custom" -> IF repairs > 0 THEN "covered" ELSE "custom_implementation_needed"
      [] OTHER -> "missing"
CoverageStatus(p) ==
    CASE avail[p] = "modular" -> "covered"
      [] avail[p] = "custom" -> "custom_implementation_needed"
      [] OTHER -> "missing"

NoCoverage == << >>
CoverageTable(s) ==
    [p \in ResolveProperties(s) |->
        [applicability |-> Applicability(p), status |-> CoverageStatus(p)]]

Missing(table) == {p \in DOMAIN table : table[p].status = "missing"}

GateAlwaysPass(s, table) == "Pass"
GateVerdictMinimumOnly(s, table) ==
    IF Mandatory(s) \cap Missing(table) # {} THEN "Fail" ELSE "Pass"
GateVerdict(s, table) ==
    IF Mandatory(s) \cap Missing(table) # {} THEN "Fail"
    ELSE IF s.coverage_mode = "comprehensive" /\ Missing(table) # {} THEN "Fail"
    ELSE "Pass"

-----------------------------------------------------------------------------
(* Approach selection *)

SupportedStateDefinition(s) == s.state_definition \in StateDefinitions
CustomNeeded(table) == {p \in DOMAIN table : table[p].status = "custom_implementation_needed"}

RecommendedByLedger(s, table) ==
    IF ~SupportedStateDefinition(s) \/ CustomNeeded(table) # {} \/ ledger # << >>
    THEN "ClassBased" ELSE "Generic"
RecommendedAlwaysGeneric(s, table) == "Generic"
RecommendedAlwaysClassBased(s, table) == "ClassBased"
\* Generic unless an unsupported requirement forces the class-based approach.
Recommended(s, table) ==
    IF ~SupportedStateDefinition(s) \/ CustomNeeded(table) # {}
    THEN "ClassBased" ELSE "Generic"

Requested(s) ==
    CASE s.approach = "generic" -> "Generic"
      [] s.approach = "class" -> "ClassBased"
      [] OTHER -> "auto"

InfeasibleNever(s, table) == FALSE
\* A requested Generic package cannot be built when the method libraries do not
\* support the required behaviour.
Infeasible(s, table) == Requested(s) = "Generic" /\ Recommended(s, table) = "ClassBased"

SelectedIgnoringOverride(s, table) == Recommended(s, table)
SelectedApproach(s, table) ==
    IF Requested(s) = "auto" \/ Infeasible(s, table)
    THEN Recommended(s, table) ELSE Requested(s)

OtherApproach(a) == IF a = "Generic" THEN "ClassBased" ELSE "Generic"

DecisionRecord(s, table) ==
    LET sel == SelectedApproach(s, table)
    IN  [decision_point |-> "approach",
         selected_option |-> sel,
         rationale |->
            IF Requested(s) # "auto" /\ ~Infeasible(s, table) THEN {"user_override"}
            ELSE IF sel = "ClassBased"
                 THEN CustomNeeded(table)
                      \cup (IF SupportedStateDefinition(s) THEN {} ELSE {"state_definition"})
                 ELSE {"default_generic"},
         rejected_alternative |-> OtherApproach(sel),
         risk_notes |->
            IF Requested(s) # "auto" /\ sel # Recommended(s, table)
            THEN {"override_conflicts_with_recommendation"} ELSE {}]

-----------------------------------------------------------------------------
(* The parameter ledger *)

Keys == {"cp_mol_ig_comp_coeff", "pressure_sat_comp_coeff"}
TiersWebFirst == <<"web", "docs", "codebase">>
Tiers == <<"codebase", "docs", "web">>
Placeholder == "TODO"
NoRecord == [key |-> "none", confidence |-> "none", source |-> "none", supersede |-> FALSE]

Rec(k, c, src) == [key |-> k, confidence |-> c, source |-> src, supersede |-> FALSE]

Rank(c) == CASE c = "high" -> 3 [] c = "medium" -> 2 [] c = "low" -> 1 [] OTHER -> 0

RecordsOf(L, k) == {i \in 1..Len(L) : L[i].key = k}

\* The records of a key that count: those from its latest superseding record on.
Effective(L, k) ==
    LET sups == {i \in RecordsOf(L, k) : L[i].supersede}
    IN  IF sups = {} THEN RecordsOf(L, k)
        ELSE {i \in RecordsOf(L, k) : \A j \in sups : i >= j}

ResolveLatest(L, k) ==
    LET eff == Effective(L, k)
    IN  IF eff = {} THEN NoRecord
        ELSE L[CHOOSE i \in eff : \A j \in eff : j <= i]
\* Highest confidence first, then the most recently retrieved.
Resolve(L, k) ==
    LET eff == Effective(L, k)
    IN  IF eff = {} THEN NoRecord
        ELSE L[CHOOSE i \in eff : \A j \in eff :
                    \/ Rank(L[j].confidence) < Rank(L[i].confidence)
                    \/ (Rank(L[j].confidence) = Rank(L[i].confidence) /\ j <= i)]

Authorized(supersede, rationale) == supersede /\ rationale # ""

\* A lower-confidence record does not displace a high-confidence one unless the
\* call carries supersede = true and a rationale.
InsertReplacing(L, rec, supersede, rationale) ==
    IF RecordsOf(L, rec.key) = {} THEN Append(L, rec)
    ELSE [i \in 1..Len(L) |-> IF L[i].key = rec.key THEN rec ELSE L[i]]
InsertUnguarded(L, rec, supersede, rationale) ==
    Append(L, [rec EXCEPT !.supersede = supersede])
Insert(L, rec, supersede, rationale) ==
    IF /\ Resolve(L, rec.key).confidence = "high"
       /\ Rank(rec.confidence) < Rank("high")
       /\ ~Authorized(supersede, rationale)
    THEN L
    ELSE Append(L, [rec EXCEPT !.supersede = Authorized(supersede, rationale)])

IsPlaceholder(rec) == rec.confidence = "low"
HasValue(L, k) == Resolve(L, k) # NoRecord /\ ~IsPlaceholder(Resolve(L, k))

-----------------------------------------------------------------------------
(* Method and parameter mapping *)

MethodKeys(p) ==
    CASE p = "enth_mol" -> {"cp_mol_ig_comp_coeff"}
      [] p = "phase_equilibrium_form" -> {"pressure_sat_comp_coeff"}
      [] OTHER -> {}

\* The parameter keys of the methods selected for the properties that have one.
KeysOf(table) == UNION {MethodKeys(p) : p \in DOMAIN table \ Missing(table)}

Idle == [k \in Keys |-> "not_needed"]

\* Where the resolution of each key starts: a value already in the ledger is reused.
StartLookups(table, L) ==
    [k \in Keys |->
        IF k \notin KeysOf(table) THEN "not_needed"
        ELSE IF HasValue(L, k) THEN "resolved"
        ELSE Tiers[1]]

RequiredKeys == {k \in Keys : look[k] # "not_needed"}
PendingAtFirstTier == {k \in Keys : look[k] = Tiers[1]}
\* The keys whose lookup has not come back yet.
Pending == {k \in Keys : look[k] \in {Tiers[1], Tiers[2], Tiers[3]}}
GapKeys == {k \in Keys : look[k] = "gap"}

TierIndex(t) == CHOOSE i \in 1..Len(Tiers) : Tiers[i] = t

\* What a found value is recorded with: web values may be placeholder values.
HitConfidences(t) == IF t = "web" THEN {"medium", "low"} ELSE {"high"}

\* The record emitted for a value no source tier resolved.
PlaceholderRecord(k) == Rec(k, "low", Placeholder)

-----------------------------------------------------------------------------
(* Validation *)

ExternalChecks == {"construction", "unit_consistency", "dof_parity"}
Checklist == ExternalChecks \cup {"parameter_completeness", "equilibrium_triad"}
NoResults == << >>

CompatibleAny(eos, form) == TRUE
\* Cubic EOS goes with log_fugacity, a non-cubic EOS with fugacity.
Compatible(eos, form) == (eos \in CubicEos) <=> (form = "log_fugacity")

ParameterCompletenessLax(gaps) == [status |-> "pass", detail |-> {}]
\* Every selected method has its parameters as values or placeholders.
ParameterCompleteness(gaps) ==
    [status |-> IF gaps = {} THEN "pass" ELSE "fail", detail |-> gaps]

EquilibriumTriad(s) ==
    [status |-> IF s.eq_required /\ ~Compatible(s.eos, s.form) THEN "fail" ELSE "pass",
     detail |-> {}]

ChecklistResults(failing) ==
    [c \in Checklist |->
        CASE c = "parameter_completeness" -> ParameterCompleteness(GapKeys)
          [] c = "equilibrium_triad" -> EquilibriumTriad(spec)
          [] OTHER -> [status |-> IF c \in failing THEN "fail" ELSE "pass", detail |-> {}]]

Failing(r) == {c \in DOMAIN r : r[c].status # "pass"}
AllPassButDof(r) == r # NoResults /\ Failing(r) \subseteq {"dof_parity"}
\* The exit criteria: every entry of the checklist passes.
AllPass(r) == r # NoResults /\ Failing(r) = {}

TerminalNone(r) == {}
\* Failures no patch can repair.
Terminal(r) == Failing(r) \cap {"equilibrium_triad"}

BlockReasonGeneric(r) == "ValidationFailed"
BlockReason(r) ==
    CASE "equilibrium_triad" \in Failing(r) -> "IncompatibleEquilibriumConfig"
      [] "parameter_completeness" \in Failing(r) -> "CriticalParametersMissing"
      [] "construction" \in Failing(r) -> "ConstructionInfeasible"
      [] "unit_consistency" \in Failing(r) -> "UnitInconsistency"
      [] OTHER -> "DofMismatch"

\* The parameters that still require external confirmation.
NeedsConfirmationAbsentOnly(L) == {k \in RequiredKeys : Resolve(L, k) = NoRecord}
NeedsConfirmation(L) == {k \in RequiredKeys : ~HasValue(L, k)}

NoReport == [kind |-> "none", approach |-> "none", parameter_gaps |-> {}, resolved |-> {}]
Report(kind, L) ==
    [kind |-> kind, approach |-> approach,
     parameter_gaps |-> NeedsConfirmation(L),
     resolved |-> RequiredKeys \ NeedsConfirmation(L)]

\* The orchestrator state a stage belongs to.
Orch ==
    CASE pc \in {"Normalize", "Coverage", "Approach"} -> "Planning"
      [] pc \in {"Mapping", "Checklist", "Classify"} -> "Probing"
      [] OTHER -> pc

-----------------------------------------------------------------------------
(* Initial states *)

Catalogs ==
    {a \in [Props -> {"modular", "custom", "none"}] :
        Cardinality({p \in Props : a[p] # "modular"}) <= MaxDeviations}

\* What the session's ledger may hold from earlier runs.
PreloadedLedgers ==
    { << >>,
      << Rec("cp_mol_ig_comp_coeff", "high", "codebase") >>,
      << Rec("pressure_sat_comp_coeff", "low", Placeholder) >> }

NoCall == [record |-> NoRecord, supersede |-> FALSE, rationale |-> "", before |-> NoRecord]

Init ==
    /\ raw \in RawRequests
    /\ avail \in Catalogs
    /\ ledger \in PreloadedLedgers
    /\ spec = NoSpec
    /\ error = NoError
    /\ pc = "Normalize"
    /\ coverage = NoCoverage
    /\ verdict = "none"
    /\ decisions = << >>
    /\ approach = "none"
    /\ look = Idle
    /\ results = NoResults
    /\ repairs = 0
    /\ reason = "none"
    /\ blockers = {}
    /\ report = NoReport
    /\ emitted = {}
    /\ lastCall = NoCall
    /\ dropped = {}

-----------------------------------------------------------------------------
(* The stages *)

NormalizeContinuing ==
    /\ pc = "Normalize"
    /\ raw' = raw
    /\ error' = IF MissingFields(raw) # {}
                THEN [kind |-> "IncompleteSpecError", missing_fields |-> MissingFields(raw)]
                ELSE IF ~ReferencesOk(raw)
                THEN [kind |-> "InvalidReferenceError", missing_fields |-> {}]
                ELSE error
    /\ spec' = NormalizedSpec(raw)
    /\ pc' = "Coverage"
    /\ UNCHANGED <<avail, coverage, verdict, decisions, approach, look, ledger,
                   results, repairs, reason, blockers, report, emitted, lastCall, dropped>>

\* Stage 1: input normalization.
Normalize ==
    /\ pc = "Normalize"
    /\ raw' = raw
    /\ IF MissingFields(raw) # {}
       THEN /\ error' = [kind |-> "IncompleteSpecError", missing_fields |-> MissingFields(raw)]
            /\ pc' = "Aborted"
            /\ spec' = spec
       ELSE IF ~ReferencesOk(raw)
       THEN /\ error' = [kind |-> "InvalidReferenceError", missing_fields |-> {}]
            /\ pc' = "Aborted"
            /\ spec' = spec
       ELSE /\ spec' = NormalizedSpec(raw)
            /\ pc' = "Coverage"
            /\ error' = error
    /\ UNCHANGED <<avail, coverage, verdict, decisions, approach, look, ledger,
                   results, repairs, reason, blockers, report, emitted, lastCall, dropped>>

CoverageGateRecording ==
    /\ pc = "Coverage"
    /\ coverage' = CoverageTable(spec)
    /\ verdict' = GateVerdict(spec, coverage')
    /\ IF verdict' = "Pass"
       THEN /\ pc' = "Approach"
            /\ UNCHANGED <<reason, blockers, report>>
       ELSE /\ pc' = "Blocked"
            /\ reason' = "MinimumPropertiesUnresolved"
            /\ blockers' = Missing(coverage')
            /\ report' = Report("Blocked", ledger)
    /\ ledger' = IF \E k \in KeysOf(coverage') : Resolve(ledger, k) = NoRecord
                 THEN Append(ledger, PlaceholderRecord(
                        CHOOSE k \in KeysOf(coverage') : Resolve(ledger, k) = NoRecord))
                 ELSE ledger
    /\ UNCHANGED <<raw, avail, spec, error, decisions, approach, look,
                   results, repairs, emitted, lastCall>>
    /\ dropped' = Dropped(spec)

\* Stage 2: the coverage table and its gate.
CoverageGate ==
    /\ pc = "Coverage"
    /\ coverage' = CoverageTable(spec)
    /\ verdict' = GateVerdict(spec, coverage')
    /\ IF verdict' = "Pass"
       THEN /\ pc' = "Approach"
            /\ UNCHANGED <<reason, blockers, report>>
       ELSE /\ pc' = "Blocked"
            /\ reason' = "MinimumPropertiesUnresolved"
            /\ blockers' = Missing(coverage')
            /\ report' = Report("Blocked", ledger)
    /\ UNCHANGED <<raw, avail, spec, error, decisions, approach, look, ledger,
                   results, repairs, emitted, lastCall>>
    /\ dropped' = Dropped(spec)

\* Stage 3: approach selection; the run then enters method/parameter mapping.
SelectApproach ==
    /\ pc = "Approach"
    /\ approach' = SelectedApproach(spec, coverage)
    /\ decisions' = Append(decisions, DecisionRecord(spec, coverage))
    /\ look' = StartLookups(coverage, ledger)
    /\ pc' = "Mapping"
    /\ UNCHANGED <<raw, avail, spec, error, coverage, verdict, ledger, results,
                   repairs, reason, blockers, report, emitted, lastCall, dropped>>

\* Parameter sourcing, one tier at a time in the priority order; a key that no
\* tier resolves gets a placeholder when a placeholder strategy is in place and
\* is a gap otherwise.
QueryTier(k) ==
    /\ pc = "Mapping"
    /\ k \in Pending
    /\ \/ \E c \in HitConfidences(look[k]) :
            /\ ledger' = Insert(ledger, Rec(k, c, look[k]), FALSE, "")
            /\ look' = [look EXCEPT ![k] = IF c = "low" THEN "placeholder" ELSE "resolved"]
            /\ emitted' = emitted
       \/ /\ TierIndex(look[k]) < Len(Tiers)
          /\ look' = [look EXCEPT ![k] = Tiers[TierIndex(look[k]) + 1]]
          /\ UNCHANGED <<ledger, emitted>>
       \/ /\ TierIndex(look[k]) = Len(Tiers)
          /\ IF Resolve(ledger, k) # NoRecord
             THEN /\ look' = [look EXCEPT ![k] = "placeholder"]
                  /\ UNCHANGED <<ledger, emitted>>
             ELSE IF spec.placeholder_strategy
             THEN /\ ledger' = Insert(ledger, PlaceholderRecord(k), FALSE, "")
                  /\ emitted' = emitted \cup {k}
                  /\ look' = [look EXCEPT ![k] = "placeholder"]
             ELSE /\ look' = [look EXCEPT ![k] = "gap"]
                  /\ UNCHANGED <<ledger, emitted>>
    /\ UNCHANGED <<raw, avail, spec, error, pc, coverage, verdict, decisions,
                   approach, results, repairs, reason, blockers, report, lastCall, dropped>>

\* Mapping is complete once every lookup has been joined.
FinishMapping ==
    /\ pc = "Mapping"
    /\ Pending = {}
    /\ pc' = "Checklist"
    /\ UNCHANGED <<raw, avail, spec, error, coverage, verdict, decisions, approach,
                   look, ledger, results, repairs, reason, blockers, report,
                   emitted, lastCall, dropped>>

\* The checklist is run; construction, units and degrees of freedom are decided
\* by the modeling library.
RunChecklist ==
    /\ pc = "Checklist"
    /\ \E failing \in SUBSET ExternalChecks :
          /\ Cardinality(failing) <= MaxFailing
          /\ results' = ChecklistResults(failing)
    /\ pc' = "Classify"
    /\ UNCHANGED <<raw, avail, spec, error, coverage, verdict, decisions, approach,
                   look, ledger, repairs, reason, blockers, report, emitted, lastCall, dropped>>

\* Exit criteria met: the plan is handed off.
Deliver ==
    /\ pc = "Classify"
    /\ AllPass(results)
    /\ pc' = "Ready"
    /\ report' = Report("BuildPlan", ledger)
    /\ UNCHANGED <<raw, avail, spec, error, coverage, verdict, decisions, approach,
                   look, ledger, results, repairs, reason, blockers, emitted, lastCall, dropped>>

PatchRedeciding ==
    /\ pc = "Classify"
    /\ Failing(results) # {}
    /\ Terminal(results) = {}
    /\ repairs' = IF repairs < RepairCap THEN repairs + 1 ELSE repairs
    /\ coverage' = CoverageTable(spec)
    /\ verdict' = GateVerdict(spec, coverage')
    /\ decisions' = Append(decisions, DecisionRecord(spec, coverage'))
    /\ look' = [k \in Keys |-> IF look[k] = "gap" THEN Tiers[1] ELSE look[k]]
    /\ results' = NoResults
    /\ pc' = "Mapping"
    /\ UNCHANGED <<raw, avail, spec, error, approach, ledger, reason,
                   blockers, report, emitted, lastCall>>
    /\ dropped' = Dropped(spec)

PatchReselecting ==
    /\ pc = "Classify"
    /\ Failing(results) # {}
    /\ Terminal(results) = {}
    /\ repairs' = IF repairs < RepairCap THEN repairs + 1 ELSE repairs
    /\ coverage' = CoverageTable(spec)
    /\ verdict' = GateVerdict(spec, coverage')
    /\ look' = [k \in Keys |-> IF look[k] = "gap" THEN Tiers[1] ELSE look[k]]
    /\ results' = NoResults
    /\ pc' = "Approach"
    /\ UNCHANGED <<raw, avail, spec, error, decisions, approach, ledger, reason,
                   blockers, report, emitted, lastCall>>
    /\ dropped' = Dropped(spec)

PatchAfterBlocked ==
    /\ pc \in {"Classify", "Blocked"}
    /\ Failing(results) # {}
    /\ Terminal(results) = {}
    /\ repairs' = IF repairs < RepairCap THEN repairs + 1 ELSE repairs
    /\ coverage' = CoverageTable(spec)
    /\ verdict' = GateVerdict(spec, coverage')
    /\ look' = [k \in Keys |-> IF look[k] = "gap" THEN Tiers[1] ELSE look[k]]
    /\ results' = NoResults
    /\ pc' = "Mapping"
    /\ UNCHANGED <<raw, avail, spec, error, decisions, approach, ledger, reason,
                   blockers, report, emitted, lastCall>>
    /\ dropped' = Dropped(spec)

\* A failure is patched: gaps are searched again, the coverage table is
\* regenerated and the checklist is run again.
Patch ==
    /\ pc = "Classify"
    /\ Failing(results) # {}
    /\ Terminal(results) = {}
    /\ repairs' = IF repairs < RepairCap THEN repairs + 1 ELSE repairs
    /\ coverage' = CoverageTable(spec)
    /\ verdict' = GateVerdict(spec, coverage')
    /\ look' = [k \in Keys |-> IF look[k] = "gap" THEN Tiers[1] ELSE look[k]]
    /\ results' = NoResults
    /\ pc' = "Mapping"
    /\ UNCHANGED <<raw, avail, spec, error, decisions, approach, ledger, reason,
                   blockers, report, emitted, lastCall>>
    /\ dropped' = Dropped(spec)

\* A failure is declared an explicit blocker.
DeclareBlocker ==
    /\ pc = "Classify"
    /\ Failing(results) # {}
    /\ pc' = "Blocked"
    /\ reason' = BlockReason(results)
    /\ blockers' = Failing(results)
    /\ report' = Report("Blocked", ledger)
    /\ UNCHANGED <<raw, avail, spec, error, coverage, verdict, decisions, approach,
                   look, ledger, results, repairs, emitted, lastCall, dropped>>

Next ==
    \/ Normalize
    \/ CoverageGate
    \/ SelectApproach
    \/ \E k \in Keys : QueryTier(k)
    \/ FinishMapping
    \/ RunChecklist
    \/ Deliver
    \/ Patch
    \/ DeclareBlocker

Spec == Init /\ [][Next]_vars

\* The skill always takes its next step.
FairSpec == Spec /\ WF_vars(Next)

-----------------------------------------------------------------------------
(* The ledger on its own: any sequence of Insert calls *)

LedgerRecords ==
    { Rec(k, cs[1], cs[2]) :
        k \in Keys,
        cs \in {<<"high", "codebase">>, <<"medium", "web">>, <<"low", Placeholder>>} }

LedgerInit ==
    /\ raw = BaseRequest
    /\ avail = [p \in Props |-> "modular"]
    /\ ledger = << >>
    /\ spec = NoSpec
    /\ error = NoError
    /\ pc = "Idle"
    /\ coverage = NoCoverage
    /\ verdict = "none"
    /\ decisions = << >>
    /\ approach = "none"
    /\ look = Idle
    /\ results = NoResults
    /\ repairs = 0
    /\ reason = "none"
    /\ blockers = {}
    /\ report = NoReport
    /\ emitted = {}
    /\ lastCall = NoCall
    /\ dropped = {}

LedgerInsert(rec, supersede, rationale) ==
    /\ pc = "Idle"
    /\ Len(ledger) < MaxLedger
    /\ ledger' = Insert(ledger, rec, supersede, rationale)
    /\ lastCall' = [record |-> rec, supersede |-> supersede, rationale |-> rationale,
                    before |-> Resolve(ledger, rec.key)]
    /\ UNCHANGED <<raw, avail, spec, error, pc, coverage, verdict, decisions,
                   approach, look, results, repairs, reason, blockers, report, emitted, dropped>>

LedgerNext ==
    \E rec \in LedgerRecords, supersede \in BOOLEAN, rationale \in {"", "newer measurement"} :
        LedgerInsert(rec, supersede, rationale)

LedgerSpec == LedgerInit /\ [][LedgerNext]_vars

-----------------------------------------------------------------------------
(* The coverage gate alone, over every choice of mode and of user overrides *)

GateRequests ==
    { [RawShape(ph, "FTPx", mode, eq, "fugacity", ph, "Ideal", "auto", TRUE)
          EXCEPT !.include = inc, !.exclude = exc] :
        ph \in {{"Liq"}, Phases}, mode \in {"absent", "minimum", "comprehensive"},
        eq \in BOOLEAN, inc \in SUBSET Props, exc \in SUBSET Props }

GateInit ==
    /\ raw \in {r \in GateRequests : r.eq_required => r.phases = Phases}
    /\ avail \in Catalogs
    /\ ledger = << >>
    /\ spec = NormalizedSpec(raw)
    /\ error = NoError
    /\ pc = "Coverage"
    /\ coverage = NoCoverage
    /\ verdict = "none"
    /\ decisions = << >>
    /\ approach = "none"
    /\ look = Idle
    /\ results = NoResults
    /\ repairs = 0
    /\ reason = "none"
    /\ blockers = {}
    /\ report = NoReport
    /\ emitted = {}
    /\ lastCall = NoCall
    /\ dropped = {}

GateNext == CoverageGate

GateSpec == GateInit /\ [][GateNext]_vars

-----------------------------------------------------------------------------
(* Properties *)

\* C1: whenever the run is Ready and equilibrium is required, no coverage entry
\* of an equilibrium_required property has status missing.
EquilibriumNeverMissingAtReady ==
    (pc = "Ready" /\ spec.eq_required) =>
        \A p \in DOMAIN coverage :
            coverage[p].applicability = "equilibrium_required"
                => coverage[p].status # "missing"

ReadyWithEquilibrium ==
    /\ pc = "Ready"
    /\ spec.eq_required
    /\ "phase_equilibrium_form" \in DOMAIN coverage
    /\ coverage["phase_equilibrium_form"].applicability = "equilibrium_required"

\* C2: the run is in Probing, or has handed off a build plan, only after the
\* coverage gate returned Pass and the approach Decision was recorded, and never
\* while a minimum-required property of the coverage table is missing.
ProbingOnlyAfterGateAndSelector ==
    (Orch = "Probing" \/ report.kind = "BuildPlan") =>
        /\ verdict = "Pass"
        /\ Len(decisions) >= 1
        /\ approach = decisions[Len(decisions)].selected_option
        /\ \A p \in DOMAIN coverage \cap MinimumProfile : coverage[p].status # "missing"

ProbingEntered ==
    /\ pc = "Mapping"
    /\ repairs = 0
    /\ verdict = "Pass"
    /\ Len(decisions) = 1
    /\ DOMAIN coverage \cap MinimumProfile # {}

\* C3: a run that has entered the validation loop eventually reaches Ready or
\* Blocked.
ProbingTerminates == (Orch = "Probing") ~> (pc \in {"Ready", "Blocked"})

\* C4: the number of repair iterations never exceeds the configured maximum.
RepairsWithinBudget == repairs <= RepairBudget

\* C5: Ready is entered only from Probing, and only with every checklist entry
\* at pass in the latest results.
ReadyOnlyWhenAllPass ==
    [][ (pc' = "Ready" /\ pc # "Ready") =>
            /\ Orch = "Probing"
            /\ DOMAIN results' = Checklist
            /\ \A c \in Checklist : results'[c].status = "pass" ]_vars

ReadyReached ==
    /\ pc = "Ready"
    /\ DOMAIN results = Checklist
    /\ repairs >= 1

LowConfidenceIsTodo ==
    \A i \in 1..Len(ledger) :
        ledger[i].confidence = "low" => ledger[i].source = Placeholder

\* C8: every key a placeholder was emitted for is listed as a gap of the run's
\* report, and no key whose records are all placeholders is reported resolved.
PlaceholdersReportedAsGaps ==
    report.kind # "none" =>
        /\ emitted \subseteq report.parameter_gaps
        /\ \A k \in report.resolved :
              \E i \in 1..Len(ledger) :
                  ledger[i].key = k /\ ledger[i].confidence # "low"

ReportWithPlaceholder ==
    /\ report.kind = "BuildPlan"
    /\ emitted # {}
    /\ report.resolved # {}

\* C9: an Insert of a lower-confidence record without both supersede = true and
\* a rationale leaves a high-confidence record in the ledger and resolved.
HighConfidenceNotOverwritten ==
    ( /\ lastCall.before.confidence = "high"
      /\ lastCall.record.confidence \in {"medium", "low"}
      /\ ~(lastCall.supersede /\ lastCall.rationale # "") ) =>
        /\ \E i \in 1..Len(ledger) : ledger[i] = lastCall.before
        /\ Resolve(ledger, lastCall.record.key) = lastCall.before

UnauthorizedDowngradeTried ==
    /\ lastCall.before.confidence = "high"
    /\ lastCall.record.confidence = "low"
    /\ lastCall.supersede
    /\ lastCall.rationale = ""

GenericWhenFeasible ==
    ( /\ decisions # << >>
      /\ spec.approach = "auto"
      /\ spec.state_definition \in StateDefinitions
      /\ \A p \in DOMAIN coverage : avail[p] = "modular" ) =>
        approach = "Generic" /\ decisions[1].selected_option = "Generic"

GenericSelected ==
    /\ decisions # << >>
    /\ spec.approach = "auto"
    /\ approach = "Generic"
    /\ DOMAIN coverage # {}

EmptyListsRejected ==
    [][ /\ (pc = "Normalize" /\ (raw.components = 0 \/ raw.phases = {})) =>
            /\ error'.kind = "IncompleteSpecError"
            /\ pc' = "Aborted"
            /\ spec' = NoSpec
        /\ error.kind = "IncompleteSpecError" =>
            /\ pc' = "Aborted"
            /\ coverage' = NoCoverage /\ verdict' = "none"
            /\ decisions' = << >> /\ results' = NoResults ]_vars

EmptyListRejected ==
    /\ pc = "Aborted"
    /\ error.kind = "IncompleteSpecError"
    /\ error.missing_fields \cap {"components", "phases"} # {}
    /\ coverage = NoCoverage

\* C17: a request lacking components, phases, state definition or EOS yields
\* IncompleteSpecError listing exactly the absent high-impact fields and no
\* Specification; a returned Specification holds the request's own values for
\* these fields.
HighImpactNeverGuessed ==
    [][ pc = "Normalize" =>
          LET absent ==
                {f \in {"components", "phases", "state_definition", "equation_of_state"} :
                    \/ f = "components" /\ raw.components = 0
                    \/ f = "phases" /\ raw.phases = {}
                    \/ f = "state_definition" /\ raw.state_definition = "absent"
                    \/ f = "equation_of_state" /\ raw.eos = "absent"}
          IN  /\ absent # {} =>
                    /\ error'.kind = "IncompleteSpecError"
                    /\ error'.missing_fields = absent
                    /\ spec' = NoSpec
              /\ spec' # NoSpec =>
                    /\ absent = {}
                    /\ spec'.components = raw.components
                    /\ spec'.phases = raw.phases
                    /\ spec'.state_definition = raw.state_definition
                    /\ spec'.eos = raw.eos ]_vars

SeveralFieldsReported ==
    /\ error.kind = "IncompleteSpecError"
    /\ {"state_definition", "equation_of_state"} \subseteq error.missing_fields
    /\ spec = NoSpec

\* C18: in every Specification the normalizer returns, each phase of an
\* equilibrium pair and each key of the EOS map is a declared phase.
ReferencesDeclared ==
    spec # NoSpec =>
        /\ \A pr \in spec.pairs : pr[1] \in spec.phases /\ pr[2] \in spec.phases
        /\ spec.eos_phases \subseteq spec.phases

\* C19: when normalization fails the run aborts: no later stage runs, no report
\* or build plan is emitted, and the run is never in Probing or Ready.
NormalizationErrorAborts ==
    error.kind # "none" =>
        /\ error.kind \in {"IncompleteSpecError", "InvalidReferenceError"}
        /\ pc = "Aborted"
        /\ spec = NoSpec
        /\ coverage = NoCoverage /\ verdict = "none"
        /\ decisions = << >> /\ approach = "none"
        /\ results = NoResults
        /\ report = NoReport

AbortedOnReference ==
    /\ error.kind = "InvalidReferenceError"
    /\ pc = "Aborted"
    /\ report = NoReport

\* C20: a cubic-EOS equilibrium phase bound with the fugacity form is never
\* handed off: its checklist fails the equilibrium entry, the run cannot be
\* Ready, and it is Blocked with IncompatibleEquilibriumConfig; a Ready run
\* with a cubic EOS in equilibrium uses log_fugacity.
IncompatibleFormRejected ==
    (spec # NoSpec /\ spec.eq_required /\ spec.eos \in CubicEos) =>
        /\ pc = "Ready" => spec.form = "log_fugacity"
        /\ spec.form = "fugacity" =>
              /\ pc # "Ready" /\ report.kind # "BuildPlan"
              /\ results # NoResults => results["equilibrium_triad"].status = "fail"
              /\ (pc = "Blocked" /\ verdict = "Pass") =>
                    /\ reason = "IncompatibleEquilibriumConfig"
                    /\ "equilibrium_triad" \in blockers

CubicFugacityBlocked ==
    /\ pc = "Blocked"
    /\ spec.eos = "PR"
    /\ spec.form = "fugacity"
    /\ reason = "IncompatibleEquilibriumConfig"

\* C21: a run that requires equilibrium and whose request excludes (defers) an
\* equilibrium_required property does not reach Ready.
DeferredEquilibriumNeverReady ==
    ( /\ spec # NoSpec
      /\ spec.eq_required
      /\ \E p \in spec.exclude : Applicability(p) = "equilibrium_required" ) =>
        pc # "Ready"

\* C22: when equilibrium is required the coverage table of the gate has an
\* entry for every equilibrium_required property, in both modes and for every
\* choice of included and excluded properties.
EquilibriumForcedIntoResolvedSet ==
    (verdict # "none" /\ spec.eq_required) =>
        \A p \in Props :
            Applicability(p) = "equilibrium_required" => p \in DOMAIN coverage

ExcludedEquilibriumStillResolved ==
    /\ verdict # "none"
    /\ spec.eq_required
    /\ spec.coverage_mode = "comprehensive"
    /\ "phase_equilibrium_form" \in spec.exclude
    /\ "phase_equilibrium_form" \in DOMAIN coverage

TiersInPriorityOrder ==
    [][ \A k \in Keys :
          look'[k] # look[k] =>
            /\ look'[k] = "codebase" => look[k] \in {"not_needed", "gap"}
            /\ look'[k] = "docs" => (look[k] = "codebase" /\ ledger' = ledger)
            /\ look'[k] = "web" => (look[k] = "docs" /\ ledger' = ledger)
            /\ look'[k] \in {"gap", "placeholder"} => look[k] = "web" ]_vars

WebTierQueried ==
    /\ pc = "Mapping"
    /\ \E k \in Keys : look[k] = "web"

\* C27: a request that leaves the coverage mode out is not rejected for it, and
\* its Specification has coverage mode minimum.
CoverageModeDefaultsToMinimum ==
    (raw.coverage_mode = "absent" /\ pc # "Normalize") =>
        /\ "coverage_mode" \notin error.missing_fields
        /\ error.kind # "IncompleteSpecError"
        /\ spec # NoSpec
        /\ spec.coverage_mode = "minimum"

DefaultedModePassedGate ==
    /\ raw.coverage_mode = "absent"
    /\ spec # NoSpec
    /\ spec.coverage_mode = "minimum"
    /\ verdict = "Pass"

LookupsJoinedAndOrderFree ==
    [][ /\ (pc = "Mapping" /\ pc' = "Checklist") =>
              \A k \in Keys : look[k] \in {"not_needed", "resolved", "placeholder", "gap"}
        /\ (pc = "Checklist" /\ pc' = "Classify") =>
              /\ \A k \in Keys : look[k] \in {"not_needed", "resolved", "placeholder", "gap"}
              /\ results'["parameter_completeness"].detail = {k \in Keys : look[k] = "gap"}
        /\ \A k \in Keys :
              (pc = "Mapping" /\ pc' = "Mapping" /\ look'[k] # look[k]) =>
                  \A j \in Keys \ {k} :
                      /\ look'[j] = look[j]
                      /\ SelectSeq(ledger', LAMBDA r : r.key = j)
                            = SelectSeq(ledger, LAMBDA r : r.key = j)
        /\ \A k \in Keys :
              Resolve(ledger', k) = Resolve(SelectSeq(ledger', LAMBDA r : r.key = k), k) ]_vars

ResponsesArrivedOutOfKeyOrder ==
    /\ pc = "Classify"
    /\ Len(ledger) >= 2
    /\ ledger[1].key = "pressure_sat_comp_coeff"
    /\ ledger[2].key = "cp_mol_ig_comp_coeff"
    /\ look["cp_mol_ig_comp_coeff"] = "resolved"
    /\ results["parameter_completeness"].status = "pass"

\* C34 as stated: a coverage gate run leaves the ledger as it is; so does a
\* mapping step when no placeholder strategy is in place; with one in place a
\* mapping step adds at most a placeholder for a key that had no record.
MapperAddsOnlyPlaceholders ==
    [][ /\ pc = "Coverage" => ledger' = ledger
        /\ pc = "Mapping" =>
              \/ ledger' = ledger
              \/ /\ spec.placeholder_strategy
                 /\ \E k \in Keys :
                       /\ \A i \in 1..Len(ledger) : ledger[i].key # k
                       /\ ledger' = Append(ledger, Rec(k, "low", Placeholder)) ]_vars

\* C34: a coverage gate run leaves the ledger as it is.  A mapping step
\* removes and modifies no record and appends at most one, for a key whose
\* lookup is outstanding: the value a source tier returned, with that tier as
\* its source, or, with a placeholder strategy in place and no record of the
\* key, a TODO placeholder.  Without a placeholder strategy no TODO
\* placeholder is added.
GateReadOnlyMapperAppendsFindings ==
    [][ /\ pc = "Coverage" => ledger' = ledger
        /\ pc = "Mapping" =>
              \/ ledger' = ledger
              \/ \E k \in Keys :
                    /\ look[k] \in {"codebase", "docs", "web"}
                    /\ \/ \E c \in {"high", "medium", "low"} :
                             /\ ledger' = Append(ledger, Rec(k, c, look[k]))
                             /\ look'[k] \in {"resolved", "placeholder"}
                       \/ /\ spec.placeholder_strategy
                          /\ look[k] = "web"
                          /\ \A i \in 1..Len(ledger) : ledger[i].key # k
                          /\ ledger' = Append(ledger, Rec(k, "low", Placeholder)) ]_vars

ValueRecordedWithoutPlaceholderStrategy ==
    /\ pc = "Checklist"
    /\ verdict = "Pass"
    /\ ~spec.placeholder_strategy
    /\ \E i \in 1..Len(ledger) :
          ledger[i].key = "pressure_sat_comp_coeff" /\ ledger[i].source = "docs"

TerminalFailureBlocksDirectly ==
    [][ (pc = "Classify" /\ results["equilibrium_triad"].status # "pass") =>
            /\ Orch = "Probing"
            /\ pc' = "Blocked"
            /\ reason' = "IncompatibleEquilibriumConfig"
            /\ "equilibrium_triad" \in blockers'
            /\ repairs = 0 /\ repairs' = 0
            /\ look' = look /\ ledger' = ledger
            /\ coverage' = coverage /\ results' = results ]_vars

TerminalFailureAmongOthers ==
    /\ pc = "Blocked"
    /\ reason = "IncompatibleEquilibriumConfig"
    /\ repairs = 0
    /\ {"equilibrium_triad", "dof_parity"} \subseteq blockers

\* C38: the only step that goes back to an earlier stage is the repair step,
\* from the classification of a failure to the mapping with the coverage table
\* regenerated; once the run is in Probing, normalization and approach
\* selection are not run again, and the Specification and the selected
\* approach stay what they were when Probing was entered, up to and including
\* the terminal state.
OnlyRepairGoesBack ==
    [][ LET rank(st) ==
              CASE st = "Normalize" -> 1 [] st = "Coverage" -> 2
                [] st = "Approach" -> 3 [] st = "Mapping" -> 4
                [] st = "Checklist" -> 5 [] st = "Classify" -> 6
                [] OTHER -> 7
        IN  /\ rank(pc') < rank(pc) => (pc = "Classify" /\ pc' = "Mapping")
            /\ pc \in {"Mapping", "Checklist", "Classify", "Ready", "Blocked"} =>
                  /\ pc' \notin {"Normalize", "Coverage", "Approach"}
                  /\ spec' = spec
                  /\ approach' = approach
                  /\ raw' = raw /\ error' = error ]_vars

RepairLoopedBackToMapping ==
    /\ pc = "Mapping"
    /\ repairs = 1
    /\ approach = "Generic"
    /\ spec = NormalizedSpec(raw)
    /\ Pending # {}

\* C39: once the run is Ready or Blocked it stays there: no step changes the
\* stage, counts a repair, runs the checklist or a lookup again, or replaces
\* the report.
TerminalStatesAbsorbing ==
    [][ (pc = "Ready" \/ pc = "Blocked") =>
            /\ pc' = pc
            /\ repairs' = repairs
            /\ results' = results
            /\ look' = look
            /\ report' = report /\ reason' = reason ]_vars

BlockedOnRepairableFailure ==
    /\ pc = "Blocked"
    /\ Terminal(results) = {}
    /\ "unit_consistency" \in blockers
    /\ report.kind = "Blocked"

\* C40: with a placeholder strategy in place, a mapping step adds no
\* placeholder (low-confidence record) for a key the ledger already holds a
\* record of, and the ledger never holds more than one placeholder per key.
PlaceholderInsertedOnce ==
    [][ \A k \in Keys :
          LET had == {i \in 1..Len(ledger) : ledger[i].key = k}
              low == {i \in 1..Len(ledger) :
                          ledger[i].key = k /\ ledger[i].confidence = "low"}
              lowAfter == {i \in 1..Len(ledger') :
                          ledger'[i].key = k /\ ledger'[i].confidence = "low"}
          IN  /\ (pc = "Mapping" /\ spec.placeholder_strategy /\ had # {}) =>
                    lowAfter = low
              /\ Cardinality(lowAfter) <= 1 ]_vars

====
